---- MODULE Spec2Model ----
(***************************************************************************)
(* State-machine model of src/utils/utils.js (thingy-api-blue).            *)
(*                                                                         *)
(* Spec        : the event correlator, waitClickButton (lines 817-857):    *)
(*               the 'message' listeners of the mqtt client, the promise   *)
(*               of every wait and its 60 s timer.                         *)
(* EncoderSpec : the point encoder, addFloatProperty / addIntegerProperty  *)
(*               (lines 518-545), writing points to the influx client.     *)
(* QuerySpec   : the query builders, constructBasicPropertyQuery and       *)
(*               constructStatisticalQueryOnProperty (lines 557-593).      *)
(* RowsSpec    : getQueryRows / sendQueryResults (lines 459-511) on the    *)
(*               push-style result stream of the store.                    *)
(* PublishSpec : publishToMQTT (lines 439-451).                            *)
(* RatingSpec  : getSCurveRating / getLinearRating (lines 868-933).        *)
(* LocationSpec: checkLocation (lines 717-727).                            *)
(* AuthSpec    : connectUser (lines 779-809) on the user collection.       *)
(* ErrorSpec   : sendErrorProd (lines 380-393).                            *)
(* ShutdownSpec: shutDownAll (lines 402-421); LiveShutdownSpec adds the    *)
(*               fairness of the event loop and of the two close calls.    *)
(***************************************************************************)
EXTENDS Integers, Sequences, FiniteSets, TLC

\* ------------------------------------------------------------------ bounds
\* number of waitClickButton calls in one run
MaxWaits == 2
\* number of addFloatProperty / addIntegerProperty calls in one run
MaxCalls == 2
\* largest value of the wall clock (new Date().getTime())
MaxClock == 2
\* number of sendQueryResults / getQueryRows calls in one run
MaxStreams == 2
\* number of rows the store delivers to one call
MaxRows == 2
\* number of publishToMQTT calls in one run
MaxPublishes == 2
\* number of connectUser calls in one run
MaxLogins == 1
\* largest value of the time in seconds seen by jwt.verify
MaxAuthNow == 2
\* number of sendErrorProd calls in one run
MaxSends == 2
\* number of shutDownAll calls in one run
MaxShutdowns == 2

\* --------------------------------------------------------- program constants
\* Math.exp(x) is Infinity from x = 709.78... on (the largest double is about
\* e^709.78); the arguments of the model are multiples of 1/2, so the first
\* one that overflows is 710
ExpOverflowArg == 710

\* --------------------------------------------------------------- JS values
Undefined == [t |-> "undefined"]
Null == [t |-> "null"]
Num(n) == [t |-> "number", v |-> n]
Str(s) == [t |-> "string", v |-> s]
\* a decoded JSON object with the two properties the code reads; a property
\* that the text does not carry reads as Undefined
Obj(appId, ts) == [t |-> "object", appId |-> appId, ts |-> ts]

Devices == {"dev1", "dev2"}

\* A raw topic string, as its sequence of tokens: "/" or a run of other
\* characters.
Topics ==
  { <<"things", "/", "dev1", "/", "shadow", "/", "update">>,
    <<"things", "/", "dev2", "/", "shadow", "/", "update">>,
    <<"things", "/", "dev2", "/", "things", "/", "dev1">>,
    <<"status", "/", "dev1">>,
    <<"things">> }

\* JSON.parse on the payload texts of the model: the value of each text that
\* is valid JSON.  Every other text makes JSON.parse throw a SyntaxError.
ParseTable ==
  ( "null" :> Null ) @@
  ( "{\"appId\":\"BUTTON\",\"ts\":1}" :> Obj(Str("BUTTON"), Num(1)) ) @@
  ( "{\"appId\":\"BUTTON\",\"ts\":2}" :> Obj(Str("BUTTON"), Num(2)) ) @@
  ( "{\"appId\":\"BUTTON\"}" :> Obj(Str("BUTTON"), Undefined) ) @@
  ( "{\"appId\":\"TEMP\",\"ts\":1}" :> Obj(Str("TEMP"), Num(1)) )

Payloads == (DOMAIN ParseTable) \cup {"{\"appId\":"}

JSONParse(message) ==
  IF message \in DOMAIN ParseTable
  THEN [threw |-> FALSE, value |-> ParseTable[message]]
  ELSE [threw |-> TRUE, error |-> "SyntaxError"]

\* topic.split('/'): a separator closes the current segment, so a leading,
\* trailing or doubled "/" yields an empty segment
RECURSIVE SplitFrom(_, _, _, _)
SplitFrom(topic, i, cur, acc) ==
  IF i > Len(topic) THEN Append(acc, cur)
  ELSE IF topic[i] = "/" THEN SplitFrom(topic, i + 1, "", Append(acc, cur))
  ELSE SplitFrom(topic, i + 1, topic[i], acc)

Split(topic) == SplitFrom(topic, 1, "", <<>>)

\* Array.prototype.indexOf: the 0-based index of the first occurrence, or -1
IndexOf(parts, x) ==
  IF \E i \in 1..Len(parts) : parts[i] = x
  THEN (CHOOSE i \in 1..Len(parts) :
          parts[i] = x /\ \A j \in 1..(i - 1) : parts[j] # x) - 1
  ELSE -1

\* ------------------------------------------------------------------- state
VARIABLES
  thingyOf,       \* wait id -> the `thingy` argument of that waitClickButton call
  promise,        \* wait id -> state of the promise returned to the caller
  timeoutId,      \* wait id -> "armed" | "cleared" | "fired"
  deadlinePassed, \* wait id -> whether 60 s have passed since the call
  listeners,      \* the mqtt client's 'message' listeners, in registration order
  settledNow,     \* the waits whose promise the last step settled
  points,         \* the points handed to INFLUX.writeClient.writePoint, in order
  calls,          \* log of the addFloatProperty / addIntegerProperty calls
  clock,          \* new Date().getTime()
  query,          \* the last query-builder call: its arguments and the string returned
  streams,        \* the queryRows executions started by getQueryRows / sendQueryResults
  publishes,      \* the publishToMQTT calls
  ratingCall,         \* the last getLinearRating / getSCurveRating call and its result
  location,       \* the last checkLocation call and its result
  users,          \* the user collection: id -> document, or null
  logins,         \* the connectUser calls
  authNow,        \* the time in seconds jwt.verify and the user model read
  sent,           \* the sendErrorProd calls
  shutdowns,      \* the shutDownAll calls
  exitCode        \* the code process.exit was called with, or the process still runs

vars == <<thingyOf, promise, timeoutId, deadlinePassed, listeners, settledNow,
          points, calls, clock, query, streams, publishes, ratingCall, location,
          users, logins, authNow, sent, shutdowns, exitCode>>
waitVars == <<thingyOf, promise, timeoutId, deadlinePassed, listeners, settledNow>>
encoderVars == <<points, calls, clock>>
authVars == <<users, logins, authNow>>
shutdownVars == <<shutdowns, exitCode>>
exceptWait == <<encoderVars, query, streams, publishes, ratingCall, location,
                    authVars, sent, shutdownVars>>
exceptEncoder == <<waitVars, query, streams, publishes, ratingCall, location,
                    authVars, sent, shutdownVars>>
exceptQuery == <<waitVars, encoderVars, streams, publishes, ratingCall, location,
                    authVars, sent, shutdownVars>>
exceptStreams == <<waitVars, encoderVars, query, publishes, ratingCall, location,
                    authVars, sent, shutdownVars>>
exceptPublishes == <<waitVars, encoderVars, query, streams, ratingCall, location,
                    authVars, sent, shutdownVars>>
exceptRating == <<waitVars, encoderVars, query, streams, publishes, location,
                    authVars, sent, shutdownVars>>
exceptLocation == <<waitVars, encoderVars, query, streams, publishes, ratingCall,
                    authVars, sent, shutdownVars>>
exceptAuth == <<waitVars, encoderVars, query, streams, publishes, ratingCall, location,
                sent, shutdownVars>>
exceptSent == <<waitVars, encoderVars, query, streams, publishes, ratingCall, location,
                authVars, shutdownVars>>
exceptShutdown == <<waitVars, encoderVars, query, streams, publishes, ratingCall, location,
                    authVars, sent>>

\* no call made yet
None == [fn |-> "none"]

Waits == 1..Len(promise)

Pending == [state |-> "pending"]
Fulfilled(v) == [state |-> "fulfilled", value |-> v]
Rejected(e) == [state |-> "rejected", reason |-> e]

Init ==
  /\ thingyOf = <<>>
  /\ promise = <<>>
  /\ timeoutId = <<>>
  /\ deadlinePassed = <<>>
  /\ listeners = <<>>
  /\ settledNow = {}
  /\ points = <<>>
  /\ calls = <<>>
  /\ clock = 0
  /\ query = None
  /\ streams = <<>>
  /\ publishes = <<>>
  /\ ratingCall = None
  /\ location = None
  /\ users = [id \in {"u1", "u2"} |-> IF id = "u1" THEN [id |-> "u1", passwordChangedAt |-> Undefined]
                                      ELSE Null]
  /\ logins = <<>>
  /\ authNow = 0
  /\ sent = <<>>
  /\ shutdowns = <<>>
  /\ exitCode = Undefined

\* ------------------------------------------------------- waitClickButton
\* resolve / reject of a promise: only the first call settles it
SettleOverwrite(p, w, outcome) == [p EXCEPT ![w] = outcome]

Settle(p, w, outcome) ==
  IF p[w].state = "pending" THEN [p EXCEPT ![w] = outcome] ELSE p

\* mqttClient.off('message', fn)
Off(ls, fn, w) == SelectSeq(ls, LAMBDA l : l # [fn |-> fn, wait |-> w])

HasListener(ls, fn, w) == \E i \in 1..Len(ls) : ls[i] = [fn |-> fn, wait |-> w]

\* data.appId / data.ts of a decoded value that is not null
AppIdOf(data) == IF data.t = "object" THEN data.appId ELSE Undefined

TsOfDropped(data) == Undefined

TsOf(data) == IF data.t = "object" THEN data.ts ELSE Undefined

\* The device the handler reads from a topic: the segment after the first
\* "things" segment, when there is one
DeviceOf(topic) ==
  LET topicParts == Split(topic)
      thingsIndex == IndexOf(topicParts, "things")
  IN IF thingsIndex # -1 /\ thingsIndex + 1 < Len(topicParts)
     THEN [scoped |-> TRUE, device |-> topicParts[thingsIndex + 2]]
     ELSE [scoped |-> FALSE]

\* messageHandler of wait w, run on the emitter state st
messageHandler(st, w, topic, message) ==
  LET parsed == JSONParse(message)
  IN IF parsed.threw
     THEN [st EXCEPT !.promise = Settle(@, w, Rejected(parsed.error))]
     ELSE LET data == parsed.value
              dev == DeviceOf(topic)
          IN IF ~dev.scoped THEN st
             ELSE IF dev.device # thingyOf[w] THEN st
             ELSE IF data.t \in {"null", "undefined"}
                  THEN [st EXCEPT !.promise = Settle(@, w, Rejected("TypeError"))]
             ELSE IF AppIdOf(data) = Str("BUTTON")
                  THEN [st EXCEPT !.listeners = Off(@, "messageHandler", w),
                                  !.promise = Settle(@, w, Fulfilled(TsOf(data)))]
             ELSE st

\* the one-shot listener of once(mqttClient, 'message'): it is removed and its
\* promise resolves, which queues the .then callback as a microtask.  (once also
\* listens for 'error'; the model has 'message' events only.)
onceListener(st, w) ==
  [st EXCEPT !.listeners = Off(@, "once", w),
             !.microtasks = Append(@, w)]

\* clearTimeout(timeoutId): no effect on a timer that already fired
ClearTimeoutNoop(t, w) == t

ClearTimeout(t, w) ==
  IF t[w] = "armed" THEN [t EXCEPT ![w] = "cleared"] ELSE t

\* emit('message', topic, message): every listener registered when the emit
\* starts is called, in registration order
RECURSIVE EmitFrom(_, _, _, _, _)
EmitFrom(copy, i, st, topic, message) ==
  IF i > Len(copy) THEN st
  ELSE EmitFrom(copy, i + 1,
                IF copy[i].fn = "messageHandler"
                THEN messageHandler(st, copy[i].wait, topic, message)
                ELSE onceListener(st, copy[i].wait),
                topic, message)

\* the microtasks queued by the emit run before any timer callback
RECURSIVE RunMicrotasks(_, _)
RunMicrotasks(st, i) ==
  IF i > Len(st.microtasks) THEN st
  ELSE RunMicrotasks([st EXCEPT !.timeoutId = ClearTimeout(@, st.microtasks[i])],
                     i + 1)

Emit(topic, message) ==
  RunMicrotasks(
    EmitFrom(listeners, 1,
             [listeners |-> listeners, promise |-> promise,
              timeoutId |-> timeoutId, microtasks |-> <<>>],
             topic, message),
    1)

NewlySettled(p, q) ==
  {w \in DOMAIN p : p[w].state = "pending" /\ q[w].state # "pending"}

\* one listener per device: a new wait takes the place of the pending waits on
\* the same device
WaitClickButtonReplacing(thingy) ==
  /\ Len(promise) < MaxWaits
  /\ LET w == Len(promise) + 1
         kept == SelectSeq(listeners, LAMBDA l : thingyOf[l.wait] # thingy)
     IN /\ thingyOf' = Append(thingyOf, thingy)
        /\ promise' = Append(promise, Pending)
        /\ listeners' = Append(Append(kept,
                                      [fn |-> "messageHandler", wait |-> w]),
                               [fn |-> "once", wait |-> w])
        /\ timeoutId' = Append(timeoutId, "armed")
        /\ deadlinePassed' = Append(deadlinePassed, FALSE)
  /\ settledNow' = {}
  /\ UNCHANGED exceptWait

\* a call waitClickButton(mqttClient, thingy)
WaitClickButton(thingy) ==
  /\ Len(promise) < MaxWaits
  /\ LET w == Len(promise) + 1
     IN /\ thingyOf' = Append(thingyOf, thingy)
        /\ promise' = Append(promise, Pending)
        /\ listeners' = Append(Append(listeners,
                                      [fn |-> "messageHandler", wait |-> w]),
                               [fn |-> "once", wait |-> w])
        /\ timeoutId' = Append(timeoutId, "armed")
        /\ deadlinePassed' = Append(deadlinePassed, FALSE)
  /\ settledNow' = {}
  /\ UNCHANGED exceptWait

\* the mqtt client emits 'message' for one inbound packet
Message(topic, message) ==
  /\ LET st == Emit(topic, message)
     IN /\ listeners' = st.listeners
        /\ promise' = st.promise
        /\ timeoutId' = st.timeoutId
        /\ settledNow' = NewlySettled(promise, st.promise)
  /\ UNCHANGED <<thingyOf, deadlinePassed>>
  /\ UNCHANGED exceptWait

\* All timers run 60 s, so they come due in the order the waits started.
EarlierDeadlinesPassed(w) == \A v \in 1..(w - 1) : deadlinePassed[v]

\* the setTimeout callback of wait w, 60 s after the call
TimeoutCallback(w) ==
  /\ w \in Waits
  /\ timeoutId[w] = "armed"
  /\ EarlierDeadlinesPassed(w)
  /\ listeners' = Off(listeners, "messageHandler", w)
  /\ promise' = Settle(promise, w, Rejected("AppError408"))
  /\ timeoutId' = [timeoutId EXCEPT ![w] = "fired"]
  /\ deadlinePassed' = [deadlinePassed EXCEPT ![w] = TRUE]
  /\ settledNow' = NewlySettled(promise, promise')
  /\ UNCHANGED thingyOf
  /\ UNCHANGED exceptWait

\* 60 s pass for a wait whose timer was cleared: no code runs
DeadlinePasses(w) ==
  /\ w \in Waits
  /\ timeoutId[w] = "cleared"
  /\ ~deadlinePassed[w]
  /\ EarlierDeadlinesPassed(w)
  /\ deadlinePassed' = [deadlinePassed EXCEPT ![w] = TRUE]
  /\ settledNow' = {}
  /\ UNCHANGED <<thingyOf, promise, timeoutId, listeners>>
  /\ UNCHANGED exceptWait

Next ==
  \/ \E thingy \in Devices : WaitClickButton(thingy)
  \/ \E topic \in Topics, message \in Payloads : Message(topic, message)
  \/ \E w \in 1..MaxWaits : TimeoutCallback(w)
  \/ \E w \in 1..MaxWaits : DeadlinePasses(w)

Spec == Init /\ [][Next]_vars

\* --------------------------------------- addFloatProperty / addIntegerProperty
\* Number(s) for the payload strings of the model
ToNumber(s) == CASE s = "0" -> 0 [] s = "1" -> 1 [] s = "2" -> 2

\* a == b of JavaScript on numbers and strings: a string is compared to a
\* number by its numeric value
LooseEquals(a, b) ==
  IF a.t = b.t THEN a.v = b.v
  ELSE IF a.t = "number" /\ b.t = "string" THEN a.v = ToNumber(b.v)
  ELSE IF a.t = "string" /\ b.t = "number" THEN ToNumber(a.v) = b.v
  ELSE FALSE

\* decoded telemetry messages handed to the encoder
Msg(appId, data, ts) == [appId |-> appId, data |-> data, ts |-> ts]

MsgTs == {Undefined, Num(9)}

FloatMessages == {Msg("TEMP", Num(21), ts) : ts \in MsgTs}

IntegerMessages ==
  {Msg("FLIP", data, ts) : data \in {Str("0"), Str("1"), Str("2"), Num(1)},
                           ts \in MsgTs}

\* new Point('thingy91').tag('device', deviceId).<kind>Field(name, arg).timestamp(t)
Point(deviceId, kind, name, arg, t) ==
  [measurement |-> "thingy91", tags |-> [device |-> deviceId],
   field |-> [kind |-> kind, name |-> name, arg |-> arg], timestamp |-> t]

\* the guard of addIntegerProperty
ShouldWriteAlways(message) == TRUE

ShouldWrite(message) == LooseEquals(message.data, Str("1"))

\* the wall clock advances
Tick ==
  /\ clock < MaxClock
  /\ clock' = clock + 1
  /\ UNCHANGED <<points, calls>>
  /\ UNCHANGED exceptEncoder

addFloatProperty(deviceId, message) ==
  /\ Len(calls) < MaxCalls
  /\ points' = Append(points,
                      Point(deviceId, "float", message.appId, message.data, clock))
  /\ calls' = Append(calls, [fn |-> "addFloatProperty", deviceId |-> deviceId,
                             message |-> message, at |-> clock,
                             point |-> Len(points) + 1])
  /\ UNCHANGED clock
  /\ UNCHANGED exceptEncoder

addIntegerProperty(deviceId, message) ==
  /\ Len(calls) < MaxCalls
  /\ IF ShouldWrite(message)
     THEN /\ points' = Append(points,
                              Point(deviceId, "int", message.appId, message.data,
                                    clock))
          /\ calls' = Append(calls, [fn |-> "addIntegerProperty",
                                     deviceId |-> deviceId, message |-> message,
                                     at |-> clock, point |-> Len(points) + 1])
     ELSE /\ points' = points
          /\ calls' = Append(calls, [fn |-> "addIntegerProperty",
                                     deviceId |-> deviceId, message |-> message,
                                     at |-> clock, point |-> 0])
  /\ UNCHANGED clock
  /\ UNCHANGED exceptEncoder

EncoderNext ==
  \/ Tick
  \/ \E deviceId \in Devices, message \in FloatMessages :
       addFloatProperty(deviceId, message)
  \/ \E deviceId \in Devices, message \in IntegerMessages :
       addIntegerProperty(deviceId, message)

EncoderSpec == Init /\ [][EncoderNext]_vars

\* ------------------------------------------------------- query builders
\* `${x}` in a template literal: the string form of the value
TemplateString(v) ==
  CASE v.t = "string" -> v.v
    [] v.t = "undefined" -> "undefined"
    [] v.t = "null" -> "null"

Buckets == {Str("b1"), Str("b2")}
Intervals == {Str("1h"), Str("7d")}
Measurements == {Str("thingy91"), Str("m2")}
\* the deviceId argument; Undefined when the caller passes none
DeviceIds == {Str("dev1"), Str("dev2"), Undefined}
Fields == {Str("TEMP"), Str("HUMID")}
Statistics == {Str("mean"), Str("stddev")}

\* The pieces of the template literals.  A rendered query is the sequence of
\* the template's pieces and the substituted strings, in order; the string
\* returned is their concatenation.
FromOpen == "from(bucket: \""
FromClose == "\")"
RangeOpen == "\n  |> range(start: -"
RangeClose == ")"
FilterOpen == "\n  |> filter(fn: (r) => "
MeasurementEq == "r._measurement == \""
FieldEq == "r._field == \""
DeviceEq == "r.device == \""
Quote == "\""
And == " and "
FilterClose == ")"
GroupStage == "\n  |> group(columns: [\"_field\"])"
PipeOpen == "\n  |> "
CallClose == "()"

constructBasicPropertyQuery(bucket, interval, measurement, deviceId, field) ==
  << FromOpen, TemplateString(bucket), FromClose,
     RangeOpen, TemplateString(interval), RangeClose,
     FilterOpen,
     MeasurementEq, TemplateString(measurement), Quote, And,
     FieldEq, TemplateString(field), Quote, And,
     DeviceEq, TemplateString(deviceId), Quote,
     FilterClose >>

constructStatisticalWithoutGroup(bucket, interval, measurement, deviceId, field, statistic) ==
  << FromOpen, TemplateString(bucket), FromClose,
     RangeOpen, TemplateString(interval), RangeClose,
     FilterOpen,
     MeasurementEq, TemplateString(measurement), Quote, And,
     FieldEq, TemplateString(field), Quote, And,
     DeviceEq, TemplateString(deviceId), Quote,
     FilterClose,
     PipeOpen, TemplateString(statistic), CallClose >>

constructStatisticalQueryOnProperty(bucket, interval, measurement, deviceId, field, statistic) ==
  << FromOpen, TemplateString(bucket), FromClose,
     RangeOpen, TemplateString(interval), RangeClose,
     FilterOpen,
     MeasurementEq, TemplateString(measurement), Quote, And,
     FieldEq, TemplateString(field), Quote, And,
     DeviceEq, TemplateString(deviceId), Quote,
     FilterClose,
     GroupStage,
     PipeOpen, TemplateString(statistic), CallClose >>

\* a call of constructBasicPropertyQuery
BasicQuery(bucket, interval, measurement, deviceId, field) ==
  /\ query' = [fn |-> "constructBasicPropertyQuery",
               bucket |-> bucket, interval |-> interval,
               measurement |-> measurement, deviceId |-> deviceId,
               field |-> field,
               result |-> constructBasicPropertyQuery(bucket, interval, measurement,
                                                      deviceId, field)]
  /\ UNCHANGED exceptQuery

\* a call of constructStatisticalQueryOnProperty
StatisticalQuery(bucket, interval, measurement, deviceId, field, statistic) ==
  /\ query' = [fn |-> "constructStatisticalQueryOnProperty",
               bucket |-> bucket, interval |-> interval,
               measurement |-> measurement, deviceId |-> deviceId,
               field |-> field, statistic |-> statistic,
               result |-> constructStatisticalQueryOnProperty(
                            bucket, interval, measurement, deviceId, field,
                            statistic)]
  /\ UNCHANGED exceptQuery

QueryNext ==
  \/ \E bucket \in Buckets, interval \in Intervals, measurement \in Measurements,
        deviceId \in DeviceIds, field \in Fields :
       BasicQuery(bucket, interval, measurement, deviceId, field)
  \/ \E bucket \in Buckets, interval \in Intervals, measurement \in Measurements,
        deviceId \in DeviceIds, field \in Fields, statistic \in Statistics :
       StatisticalQuery(bucket, interval, measurement, deviceId, field, statistic)

QuerySpec == Init /\ [][QueryNext]_vars

\* ------------------------------------------------- query result streams
\* INFLUX.queryClient.queryRows(fluxQuery, {next, error, complete}): the store
\* calls next(row, tableMeta) once per row of the result, and then either
\* error(error) or complete(), once.  The executions of several calls
\* interleave.
\* The column labels of tableMeta; a row is the tuple of the column values.
Columns == << "table", "device", "_measurement", "_field", "_value", "_time" >>
ColumnOf(label) == CHOOSE i \in 1..Len(Columns) : Columns[i] = label
Labels == {Columns[i] : i \in 1..Len(Columns)}
Rows == { << "0", "dev1", "thingy91", "TEMP", "21", "t1" >>,
          << "1", "dev2", "thingy91", "HUMID", "40", "t2" >> }
StoreErrors == { Str("Error: unauthorized") }

\* tableMeta.toObject(row): the object with one property per column
toObject(row) == [label \in Labels |-> row[ColumnOf(label)]]

\* the object sendQueryResults pushes for a row
ResultEntry(rowObject) ==
  [device |-> rowObject["device"],
   measurement |-> rowObject["_measurement"],
   property |-> rowObject["_field"],
   value |-> rowObject["_value"],
   time |-> rowObject["_time"]]

FetchErrorMessage(error) ==
  << "An error occurred while fetching data: ", TemplateString(error) >>

\* resolve(value) / reject(reason) of a promise: only the first one settles it
Resolve(p, value) == IF p.state = "pending" THEN Fulfilled(value) ELSE p
Reject(p, reason) == IF p.state = "pending" THEN Rejected(reason) ELSE p

\* res.status(code).json(body)
Respond(responses, code, body) ==
  Append(responses, [status |-> code, body |-> body])

\* the state of one call: `result` is the array of the closure, `promise` the
\* promise getQueryRows returned, `responses` what was sent on res;
\* `delivered` and `signal` record what the store has done so far
NewStream(fn) ==
  [fn |-> fn, result |-> <<>>, promise |-> Pending, responses |-> <<>>,
   delivered |-> <<>>, signal |-> "none"]

\* the callbacks of getQueryRows
getQueryRowsNextReplacing(s, row) ==
  [s EXCEPT !.result = << toObject(row) >>]

getQueryRowsNext(s, row) ==
  [s EXCEPT !.result = Append(@, toObject(row))]

getQueryRowsErrorResolving(s, error) ==
  [s EXCEPT !.promise = Resolve(@, s.result)]

getQueryRowsError(s, error) ==
  [s EXCEPT !.promise = Reject(@, FetchErrorMessage(error))]

getQueryRowsComplete(s) ==
  [s EXCEPT !.promise = Resolve(@, s.result)]

\* the callbacks of sendQueryResults
sendQueryResultsNextStreaming(s, row) ==
  [s EXCEPT !.result = Append(@, ResultEntry(toObject(row))),
            !.responses = Respond(@, 200, [status |-> "success",
                                           data |-> << ResultEntry(toObject(row)) >>])]

sendQueryResultsNext(s, row) ==
  [s EXCEPT !.result = Append(@, ResultEntry(toObject(row)))]

sendQueryResultsError(s, error) ==
  [s EXCEPT !.responses = Respond(@, 500, [status |-> "error",
                                           message |-> FetchErrorMessage(error)])]

sendQueryResultsComplete(s) ==
  [s EXCEPT !.responses = Respond(@, 200, [status |-> "success",
                                           data |-> s.result])]

Streams == 1..Len(streams)

\* a call of getQueryRows: the promise is returned pending
GetQueryRows ==
  /\ Len(streams) < MaxStreams
  /\ streams' = Append(streams, NewStream("getQueryRows"))
  /\ UNCHANGED exceptStreams

\* a call of sendQueryResults
SendQueryResults ==
  /\ Len(streams) < MaxStreams
  /\ streams' = Append(streams, NewStream("sendQueryResults"))
  /\ UNCHANGED exceptStreams

\* the store delivers a row to call i
StoreNext(i, row) ==
  /\ streams[i].signal = "none"
  /\ Len(streams[i].delivered) < MaxRows
  /\ LET s == [streams[i] EXCEPT !.delivered = Append(@, row)]
     IN streams' = [streams EXCEPT ![i] =
                      IF s.fn = "getQueryRows" THEN getQueryRowsNext(s, row)
                      ELSE sendQueryResultsNext(s, row)]
  /\ UNCHANGED exceptStreams

\* the store signals an error to call i
StoreError(i, error) ==
  /\ streams[i].signal = "none"
  /\ LET s == [streams[i] EXCEPT !.signal = "error"]
     IN streams' = [streams EXCEPT ![i] =
                      IF s.fn = "getQueryRows" THEN getQueryRowsError(s, error)
                      ELSE sendQueryResultsError(s, error)]
  /\ UNCHANGED exceptStreams

\* the store signals the end of the result to call i
StoreComplete(i) ==
  /\ streams[i].signal = "none"
  /\ LET s == [streams[i] EXCEPT !.signal = "complete"]
     IN streams' = [streams EXCEPT ![i] =
                      IF s.fn = "getQueryRows" THEN getQueryRowsComplete(s)
                      ELSE sendQueryResultsComplete(s)]
  /\ UNCHANGED exceptStreams

RowsNext ==
  \/ GetQueryRows
  \/ SendQueryResults
  \/ \E i \in Streams, row \in Rows : StoreNext(i, row)
  \/ \E i \in Streams, error \in StoreErrors : StoreError(i, error)
  \/ \E i \in Streams : StoreComplete(i)

RowsSpec == Init /\ [][RowsNext]_vars

\* ------------------------------------------------------------ publishToMQTT
\* mqttClient.publish(topic, message, callback): the client calls the callback
\* once, with an error or without one.
PublishTopics == {"things/dev1/shadow/update/accepted", "things/dev2/shadow/update/accepted"}
PublishMessages == {"{\"appId\":\"LED\",\"data\":{\"color\":\"green\"}}", "{\"appId\":\"BUZZER\"}"}
\* the argument of the callback: undefined or null when the publish went through
PublishErrors == {Undefined, Null, Str("Error: client disconnecting")}

\* `if (error)`
Truthy(v) ==
  CASE v.t = "undefined" -> FALSE
    [] v.t = "null" -> FALSE
    [] v.t = "string" -> v.v # ""
    [] v.t = "number" -> v.v # 0
    [] v.t = "boolean" -> v.v
    [] OTHER -> TRUE

Published == 1..Len(publishes)

\* a call of publishToMQTT: hands the message and the callback to the client
PublishToMQTT(topic, message) ==
  /\ Len(publishes) < MaxPublishes
  /\ publishes' = Append(publishes,
                         [topic |-> topic, message |-> message, called |-> FALSE,
                          error |-> Undefined, console |-> <<>>, responses |-> <<>>])
  /\ UNCHANGED exceptPublishes

\* the client calls the callback of call i
PublishCallback(i, error) ==
  /\ ~publishes[i].called
  /\ publishes' =
       [publishes EXCEPT ![i] =
          IF Truthy(error)
          THEN [@ EXCEPT !.called = TRUE, !.error = error,
                         !.console = Append(@, << "Error publishing message: ",
                                                  publishes[i].message, " -> ",
                                                  TemplateString(error) >>)]
          ELSE [@ EXCEPT !.called = TRUE, !.error = error,
                         !.console = Append(@, << "Successfully published the following message: ",
                                                  publishes[i].message >>),
                         !.responses = Respond(@, 200,
                                               [status |-> "success",
                                                data |-> [message |-> publishes[i].message]])]]
  /\ UNCHANGED exceptPublishes

PublishNext ==
  \/ \E topic \in PublishTopics, message \in PublishMessages :
       PublishToMQTT(topic, message)
  \/ \E i \in Published, error \in PublishErrors : PublishCallback(i, error)

PublishSpec == Init /\ [][PublishNext]_vars

\* ---------------------------------------------------------------- ratings
\* Numbers of the rating functions are exact fractions n/d (d > 0, in lowest
\* terms, so that equal numbers are equal values).
RECURSIVE GCD(_, _)
GCD(a, b) == IF b = 0 THEN a ELSE GCD(b, a % b)

Abs(n) == IF n < 0 THEN -n ELSE n

Frac(n, d) ==
  LET g == GCD(Abs(n), Abs(d))
      sign == IF d < 0 THEN -1 ELSE 1
  IN [n |-> sign * (n \div g), d |-> sign * (d \div g)]

Int2Frac(n) == Frac(n, 1)
FracLess(a, b) == a.n * b.d < b.n * a.d
FracTimes(a, b) == Frac(a.n * b.n, a.d * b.d)
FracMinus(a, b) == Frac(a.n * b.d - b.n * a.d, a.d * b.d)

\* Math.max on integers
Max(a, b) == IF a > b THEN a ELSE b

\* the measured values and the configurations of the calls
RatingValues == {0, 10, 15, 18, 20, 22, 25, 27, 30, 35, 1445, 1500}
OptimalRanges == { <<20, 25>>, <<10, 30>>, <<22, 22>> }
FullRanges == { <<0, 30>>, <<15, 30>>, <<10, 30>>, <<0, 24>> }
Slopes == { Frac(0, 1), Frac(1, 2), Frac(1, 1) }

\* distance of the value from the optimal range (lines 872-876 and 916-918)
Distance(value, optimalRange) ==
  LET distanceAbove == Max(0, value - optimalRange[2])
      distanceBelow == Max(0, optimalRange[1] - value)
  IN Max(distanceAbove, distanceBelow)

InOptimalRange(value, optimalRange) ==
  value >= optimalRange[1] /\ value <= optimalRange[2]

\* Math.exp(x) for a fraction x: 1 for 0, Infinity from the overflow point on;
\* every other result is kept as the term exp(x)
Infinity == [infinity |-> TRUE]

MathExp(x) ==
  IF x.n = 0 THEN Int2Frac(1)
  ELSE IF x.n >= ExpOverflowArg * x.d THEN Infinity
  ELSE [exp |-> x]

\* (2 / (1 + e)) * 5 for a result e of Math.exp: exact for 1 and Infinity,
\* and the term logistic(x) = 10 / (1 + exp(x)) otherwise
NormalizedRating(e) ==
  IF e = Infinity THEN Int2Frac(0)
  ELSE IF e = Int2Frac(1) THEN Int2Frac(5)
  ELSE [logistic |-> e.exp]

SlopeAboveOnly(value, config) ==
  IF InOptimalRange(value, config.optimalRange) THEN Frac(0, 1)
  ELSE config.slopeAboveOptimal

Slope(value, config) ==
  IF InOptimalRange(value, config.optimalRange) THEN Frac(0, 1)
  ELSE IF value > config.optimalRange[2] THEN config.slopeAboveOptimal
  ELSE config.slopeBelowOptimal

getSCurveRating(value, config) ==
  LET distance == Distance(value, config.optimalRange)
      slope == Slope(value, config)
  IN Num(NormalizedRating(MathExp(FracTimes(slope, Int2Frac(distance)))))

RangesInvalidLowerOnly(optimalRange, fullRange) ==
  optimalRange[1] < fullRange[1]

\* the condition of the range check (line 907)
RangesInvalid(optimalRange, fullRange) ==
  optimalRange[1] < fullRange[1] \/ optimalRange[2] > fullRange[2]

getLinearRating(value, config) ==
  IF RangesInvalid(config.optimalRange, config.fullRange) THEN Null
  ELSE IF InOptimalRange(value, config.optimalRange) THEN Num(Int2Frac(5))
  ELSE
    LET distance == Distance(value, config.optimalRange)
        fullRangeWidth == Abs(config.fullRange[1] - config.fullRange[2])
        optimalRangeWidth == Abs(config.optimalRange[1] - config.optimalRange[2])
        width == fullRangeWidth - optimalRangeWidth
    IN IF width = 0
       \* distance / 0 is Infinity, 5 - 5 * Infinity is -Infinity
       THEN Num(Int2Frac(0))
       ELSE LET normalizedDistance == Frac(2 * distance, width)
                rating == FracMinus(Int2Frac(5),
                                    FracTimes(Int2Frac(5), normalizedDistance))
            IN Num(IF FracLess(rating, Int2Frac(0)) THEN Int2Frac(0) ELSE rating)

\* a call of getSCurveRating
SCurveRating(value, config) ==
  /\ ratingCall' = [fn |-> "getSCurveRating", value |-> value, config |-> config,
                result |-> getSCurveRating(value, config)]
  /\ UNCHANGED exceptRating

\* a call of getLinearRating
LinearRating(value, config) ==
  /\ ratingCall' = [fn |-> "getLinearRating", value |-> value, config |-> config,
                result |-> getLinearRating(value, config)]
  /\ UNCHANGED exceptRating

RatingNext ==
  \/ \E value \in RatingValues, optimalRange \in OptimalRanges,
        slopeAboveOptimal \in Slopes, slopeBelowOptimal \in Slopes :
       SCurveRating(value, [optimalRange |-> optimalRange,
                            slopeAboveOptimal |-> slopeAboveOptimal,
                            slopeBelowOptimal |-> slopeBelowOptimal])
  \/ \E value \in RatingValues, optimalRange \in OptimalRanges,
        fullRange \in FullRanges :
       LinearRating(value, [optimalRange |-> optimalRange, fullRange |-> fullRange])

RatingSpec == Init /\ [][RatingNext]_vars

\* ----------------------------------------------------------- checkLocation
\* the entries a coordinates array of a request body can hold
CoordinateEntries == {Num(0), Num(90), Num(91), Num(-91), Num(181),
                      Str("45"), Str("91"), Str("abc")}
Array(entries) == [t |-> "array", v |-> entries]
CoordinateArrays ==
  {Array(<<>>)}
    \cup {Array(<<a>>) : a \in CoordinateEntries}
    \cup {Array(<<a, b>>) : a \in CoordinateEntries, b \in CoordinateEntries}
    \cup {Array(<<a, b, Num(0)>>) : a \in CoordinateEntries, b \in CoordinateEntries}
Coordinates == {Undefined, Null} \cup CoordinateArrays

NaN == [t |-> "number", nan |-> TRUE]
IsNaN(v) == "nan" \in DOMAIN v

\* Number(s) for the strings of the entries
StringToNumber(s) ==
  CASE s = "45" -> Num(45)
    [] s = "91" -> Num(91)
    [] OTHER -> NaN

\* Math.abs(x): x is converted to a number first
MathAbs(x) ==
  LET n == CASE x.t = "number" -> x
             [] x.t = "string" -> StringToNumber(x.v)
             [] x.t = "null" -> Num(0)
             [] OTHER -> NaN
  IN IF IsNaN(n) THEN NaN ELSE Num(Abs(n.v))

\* a > limit for a number a; false for NaN
GreaterThan(a, limit) == ~IsNaN(a) /\ a.v > limit

\* typeof x !== 'number'
NotTypeofNumber(x) == x.t # "number"

\* coordinates?.length
LengthOf(coordinates) ==
  IF coordinates.t = "array" THEN Num(Len(coordinates.v)) ELSE Undefined

checkLocation(coordinates) ==
  IF LengthOf(coordinates) # Num(2) THEN FALSE
  ELSE LET lat == coordinates.v[1]
           lng == coordinates.v[2]
       IN IF NotTypeofNumber(lat) /\ GreaterThan(MathAbs(lat), 90) THEN FALSE
          ELSE IF NotTypeofNumber(lng) /\ GreaterThan(MathAbs(lng), 180) THEN FALSE
          ELSE TRUE

\* a call of checkLocation
CheckLocation(coordinates) ==
  /\ location' = [fn |-> "checkLocation", coordinates |-> coordinates,
                  result |-> checkLocation(coordinates)]
  /\ UNCHANGED exceptLocation

LocationNext == \E coordinates \in Coordinates : CheckLocation(coordinates)

LocationSpec == Init /\ [][LocationNext]_vars

\* ------------------------------------------------------------ connectUser
UserIds == {"u1", "u2"}

\* new AppError(message, statusCode): an operational error; the status is
\* "fail" for a 4xx code and "error" otherwise
AppError(message, statusCode) ==
  [message |-> message, statusCode |-> statusCode,
   status |-> IF statusCode \div 100 = 4 THEN "fail" ELSE "error",
   isOperational |-> TRUE]

\* the errors of the libraries
LibraryError(name, message) == [name |-> name, message |-> message]

\* the tokens a request can carry: none (getToken gives ''), or a token with an
\* id, the time it was issued and the time it expires, signed with JWT_SECRET
\* or not
EmptyToken == [empty |-> TRUE]
Jwt(signed, id, iat, exp) == [signed |-> signed, id |-> id, iat |-> iat, exp |-> exp]
Tokens ==
  {EmptyToken}
    \cup {Jwt(signed, id, iat, exp) :
            signed \in BOOLEAN, id \in UserIds, iat \in {0, 1}, exp \in {1, 2}}

\* jwt.verify(token, JWT_SECRET) at time now: the decoded payload, or the error
jwtVerify(token, now) ==
  IF token = EmptyToken
    THEN [error |-> LibraryError("JsonWebTokenError", "jwt must be provided")]
  ELSE IF ~token.signed
    THEN [error |-> LibraryError("JsonWebTokenError", "invalid signature")]
  ELSE IF now >= token.exp
    THEN [error |-> LibraryError("TokenExpiredError", "jwt expired")]
  ELSE [decoded |-> [id |-> token.id, iat |-> token.iat, exp |-> token.exp]]

IsError(outcome) == "error" \in DOMAIN outcome

\* currentUser.changedPasswordAfter(JWTTimestamp) of the user model
changedPasswordAfter(currentUser, JWTTimestamp) ==
  IF currentUser.passwordChangedAt = Undefined THEN FALSE
  ELSE JWTTimestamp < currentUser.passwordChangedAt.v

checkCurrentUserNoPassword(currentUser, decoded) ==
  IF currentUser = Null
    THEN Rejected(AppError("The requested account doesn't exist or was deleted.", 401))
  ELSE Fulfilled(currentUser)

\* steps 2) and 3) of connectUser on the result of findById: how the promise
\* of the call settles
checkCurrentUser(currentUser, decoded) ==
  IF currentUser = Null
    THEN Rejected(AppError("The requested account doesn't exist or was deleted.", 401))
  ELSE IF changedPasswordAfter(currentUser, decoded.iat)
    THEN Rejected(AppError("User recently changed password! Please log in again.", 401))
  ELSE Fulfilled(currentUser)

Logins == 1..Len(logins)

\* a call of connectUser: the token is verified; with a decoded payload the
\* call goes on to findById, otherwise its promise is rejected with the error
\* of jwt.verify
ConnectUser(token) ==
  /\ Len(logins) < MaxLogins
  /\ LET outcome == jwtVerify(token, authNow)
     IN logins' = Append(logins,
                         [token |-> token, at |-> authNow, verified |-> outcome,
                          pc |-> IF IsError(outcome) THEN "done" ELSE "findById",
                          lookups |-> 0, found |-> Null,
                          promise |-> IF IsError(outcome) THEN Rejected(outcome.error)
                                      ELSE Pending])
  /\ UNCHANGED <<users, authNow>>
  /\ UNCHANGED exceptAuth

\* findById of call i returns the document of the collection, or null, and the
\* call runs to its end
FindByIdReturns(i) ==
  /\ logins[i].pc = "findById"
  /\ LET decoded == logins[i].verified.decoded
         currentUser == users[decoded.id]
     IN logins' = [logins EXCEPT ![i] =
                     [@ EXCEPT !.pc = "done", !.lookups = @ + 1, !.found = currentUser,
                               !.promise = checkCurrentUser(currentUser, decoded)]]
  /\ UNCHANGED <<users, authNow>>
  /\ UNCHANGED exceptAuth

\* findById of call i fails: the rejection passes through the await
FindByIdFails(i) ==
  /\ logins[i].pc = "findById"
  /\ logins' = [logins EXCEPT ![i] =
                  [@ EXCEPT !.pc = "done", !.lookups = @ + 1,
                            !.found = [unavailable |-> TRUE],
                            !.promise = Rejected(LibraryError("MongoNetworkError",
                                                              "connection closed"))]]
  /\ UNCHANGED <<users, authNow>>
  /\ UNCHANGED exceptAuth

\* what other requests do to the collection while a call waits
ChangePassword(id) ==
  /\ users[id] # Null
  /\ users[id].passwordChangedAt # Num(authNow)
  /\ users' = [users EXCEPT ![id] = [@ EXCEPT !.passwordChangedAt = Num(authNow)]]
  /\ UNCHANGED <<logins, authNow>>
  /\ UNCHANGED exceptAuth

DeleteUser(id) ==
  /\ users[id] # Null
  /\ users' = [users EXCEPT ![id] = Null]
  /\ UNCHANGED <<logins, authNow>>
  /\ UNCHANGED exceptAuth

AuthTick ==
  /\ authNow < MaxAuthNow
  /\ authNow' = authNow + 1
  /\ UNCHANGED <<users, logins>>
  /\ UNCHANGED exceptAuth

AuthNext ==
  \/ \E token \in Tokens : ConnectUser(token)
  \/ \E i \in Logins : FindByIdReturns(i)
  \/ \E i \in Logins : FindByIdFails(i)
  \/ \E id \in UserIds : ChangePassword(id)
  \/ \E id \in UserIds : DeleteUser(id)
  \/ AuthTick

AuthSpec == Init /\ [][AuthNext]_vars

\* ---------------------------------------------------------- sendErrorProd
Bool(b) == [t |-> "boolean", v |-> b]

\* the errors the global error handler passes on: operational ones carry a
\* status code, a status, a message and sometimes the invalid fields; the
\* others are whatever was thrown
ErrorObject(isOperational, statusCode, status, message, fields, stack) ==
  [isOperational |-> isOperational, statusCode |-> statusCode, status |-> status,
   message |-> message, fields |-> fields, stack |-> stack]

InvalidFields == [t |-> "object", email |-> "Please provide a valid email address."]

OperationalErrors ==
  {ErrorObject(Bool(TRUE), Num(statusCode), Str(IF statusCode = 500 THEN "error" ELSE "fail"),
               Str(message), fields, Str("AppError: at validate (userModel.js:12)")) :
     statusCode \in {400, 401, 500},
     message \in {"Invalid input data.", "Please log in to get access."},
     fields \in {Undefined, InvalidFields}}

OtherErrors ==
  {ErrorObject(isOperational, statusCode, Str("error"), Str(message), Undefined, Str(stack)) :
     isOperational \in {Undefined, Bool(FALSE)},
     statusCode \in {Num(500)},
     message \in {"connect ECONNREFUSED 10.0.0.5:27017",
                  "Cannot read properties of undefined (reading 'password')"},
     stack \in {"at authController.js:41"}}

\* the body res.json sends for an object: JSON.stringify leaves out the
\* properties whose value is undefined
Json(object) ==
  [key \in {k \in DOMAIN object : object[k] # Undefined} |-> object[key]]

GenericMessage == "Something went wrong. Try Again!"

sendErrorProdDetailed(err, responses) ==
  Respond(responses, err.statusCode.v,
          Json([status |-> err.status, message |-> err.message, fields |-> err.fields]))

\* the responses on res after sendErrorProd(err, res)
sendErrorProd(err, responses) ==
  IF Truthy(err.isOperational)
  THEN Respond(responses, err.statusCode.v,
               Json([status |-> err.status, message |-> err.message, fields |-> err.fields]))
  ELSE Respond(responses, 500,
               Json([status |-> Str("error"), message |-> Str(GenericMessage)]))

\* what sendErrorProd(err, res) writes with console.error
sendErrorProdLog(err) ==
  IF Truthy(err.isOperational) THEN <<>> ELSE << <<"ERROR: ", err>> >>

Sends == 1..Len(sent)

\* a call of sendErrorProd with a response object nothing was sent on yet
SendErrorProd(err) ==
  /\ Len(sent) < MaxSends
  /\ sent' = Append(sent, [err |-> err, responses |-> sendErrorProd(err, <<>>),
                           console |-> sendErrorProdLog(err)])
  /\ UNCHANGED exceptSent

ErrorNext == \E err \in OperationalErrors \cup OtherErrors : SendErrorProd(err)

ErrorSpec == Init /\ [][ErrorNext]_vars

\* ------------------------------------------------------------ shutDownAll
\* The handlers of unhandledRejection, uncaughtException and SIGTERM call
\* shutDownAll; a second call can start while the first one waits.  Once
\* process.exit has run, nothing runs any more.
ShutdownMessages == {"UNHANDLED REJECTION! Shutting down...", "SIGTERM RECEIVED. Shutting down gracefully"}
ShutdownErrors == {Undefined, [t |-> "object", name |-> "TypeError", message |-> "x is not a function"]}
DbCloseErrors == {LibraryError("MongoNetworkError", "connection closed")}

Running == exitCode = Undefined

\* the code after the await: the server is closed, or the process exits
closeServerWithoutElse(call) ==
  IF call.server THEN [call EXCEPT !.pc = "server.close", !.serverClose = "started"]
  ELSE [call EXCEPT !.pc = "returned"]

closeServer(call) ==
  IF call.server THEN [call EXCEPT !.pc = "server.close", !.serverClose = "started"]
  ELSE [call EXCEPT !.pc = "exited", !.exit = Num(1)]

\* the callback of server.close
serverCloseCallback(call) ==
  [call EXCEPT !.pc = "exited", !.exit = Num(1), !.serverClose = "closed",
               !.console = Append(@, <<"Close server.">>)]

\* the catch block
catchBlock(call, err) ==
  [call EXCEPT !.pc = "exited", !.exit = Num(1),
               !.console = Append(@, <<err.name, err.message>>)]

\* the call up to its first await, or to its end without a db connection
shutDownAll(server, dbConnection, message, error) ==
  LET logged == IF Truthy(error) THEN << <<message>>, <<error.name, error.message>> >>
                ELSE << <<message>> >>
      call == [server |-> server, dbConnection |-> dbConnection, pc |-> "start",
               console |-> logged, dbClose |-> "none", serverClose |-> "none",
               exit |-> Undefined]
  IN IF dbConnection
     THEN [call EXCEPT !.pc = "await dbConnection.close", !.dbClose = "pending",
                       !.console = Append(@, <<"Close DB connection.">>)]
     ELSE closeServer(call)

Shutdowns == 1..Len(shutdowns)

\* process.exit(code) of a call, if it ran
ExitOf(call) == IF call.exit # Undefined THEN call.exit ELSE exitCode

ShutDownAll(server, dbConnection, message, error) ==
  /\ Running
  /\ Len(shutdowns) < MaxShutdowns
  /\ LET call == shutDownAll(server, dbConnection, message, error)
     IN /\ shutdowns' = Append(shutdowns, call)
        /\ exitCode' = ExitOf(call)
  /\ UNCHANGED exceptShutdown

\* dbConnection.close() of call i fulfils and the call goes on after the await
DbCloseFulfils(i) ==
  /\ Running
  /\ shutdowns[i].pc = "await dbConnection.close"
  /\ LET call == closeServer([shutdowns[i] EXCEPT !.dbClose = "fulfilled"])
     IN /\ shutdowns' = [shutdowns EXCEPT ![i] = call]
        /\ exitCode' = ExitOf(call)
  /\ UNCHANGED exceptShutdown

\* dbConnection.close() of call i rejects and the catch block runs
DbCloseRejects(i, err) ==
  /\ Running
  /\ shutdowns[i].pc = "await dbConnection.close"
  /\ LET call == catchBlock([shutdowns[i] EXCEPT !.dbClose = "rejected"], err)
     IN /\ shutdowns' = [shutdowns EXCEPT ![i] = call]
        /\ exitCode' = ExitOf(call)
  /\ UNCHANGED exceptShutdown

\* the server of call i has closed and calls the callback
ServerClosed(i) ==
  /\ Running
  /\ shutdowns[i].pc = "server.close"
  /\ LET call == serverCloseCallback(shutdowns[i])
     IN /\ shutdowns' = [shutdowns EXCEPT ![i] = call]
        /\ exitCode' = ExitOf(call)
  /\ UNCHANGED exceptShutdown

DbCloseSettles ==
  \E i \in Shutdowns : DbCloseFulfils(i) \/ \E err \in DbCloseErrors : DbCloseRejects(i, err)

ServerCloses == \E i \in Shutdowns : ServerClosed(i)

ShutdownNext ==
  \/ \E server \in BOOLEAN, dbConnection \in BOOLEAN, message \in ShutdownMessages,
        error \in ShutdownErrors :
       ShutDownAll(server, dbConnection, message, error)
  \/ \E i \in Shutdowns : DbCloseFulfils(i)
  \/ \E i \in Shutdowns, err \in DbCloseErrors : DbCloseRejects(i, err)
  \/ \E i \in Shutdowns : ServerClosed(i)

ShutdownSpec == Init /\ [][ShutdownNext]_vars

\* the promise of dbConnection.close() settles and the server, which no
\* longer accepts connections, closes
LiveShutdownSpec ==
  ShutdownSpec /\ WF_vars(DbCloseSettles) /\ WF_vars(ServerCloses)

\* ================================================================== claims
\* What the claims call things, stated without the handler's own helpers.

\* the topic has a "things" segment immediately followed by device d
TopicHasThingsThen(topic, d) ==
  LET parts == Split(topic)
  IN \E i \in 1..(Len(parts) - 1) : parts[i] = "things" /\ parts[i + 1] = d

\* the first "things" segment of the topic is immediately followed by device d
TopicFirstThingsThen(topic, d) ==
  LET parts == Split(topic)
  IN \E i \in 1..(Len(parts) - 1) :
       /\ parts[i] = "things" /\ parts[i + 1] = d
       /\ \A j \in 1..(i - 1) : parts[j] # "things"

Decodes(message) == message \in DOMAIN ParseTable

\* the payload decodes to an object whose appId is "BUTTON"
IsButton(message) ==
  /\ Decodes(message)
  /\ ParseTable[message].t = "object"
  /\ ParseTable[message].appId = Str("BUTTON")

\* the same notions, tabulated over the inputs of the model
TopicsWithThingsThen == [d \in Devices |-> {t \in Topics : TopicHasThingsThen(t, d)}]
TopicsFirstThingsThen == [d \in Devices |-> {t \in Topics : TopicFirstThingsThen(t, d)}]
ButtonPayloads == {m \in Payloads : IsButton(m)}

HasHandler(w) == HasListener(listeners, "messageHandler", w)

\* C1 (as claimed): once the 60 s deadline of a wait has passed, the wait is no
\* longer pending: it was resolved or rejected before, or the deadline rejected
\* it with the 408 timeout error, whatever non-matching messages arrived.
C1_SettledAtDeadline ==
  \A w \in Waits : deadlinePassed[w] => promise[w].state # "pending"

\* C2 (as claimed): a message whose topic holds `things/D` anywhere and whose
\* payload decodes to appId "BUTTON" resolves a pending wait on D with its ts.
C2_AnyThingsSegmentResolves ==
  [][\A w \in Waits : promise[w] = Pending =>
       \A topic \in TopicsWithThingsThen[thingyOf[w]], message \in ButtonPayloads :
         Message(topic, message)
         => promise'[w] = Fulfilled(ParseTable[message].ts)]_vars

\* C2 (amended): a message whose FIRST `things` segment is immediately followed
\* by D and whose payload decodes to appId "BUTTON" resolves a pending wait on D
\* with that message's ts in the step that delivers it, and a resolved value
\* never changes afterwards.
C2_FirstMatchResolves ==
  /\ [][\A w \in Waits : promise[w] = Pending =>
          \A topic \in TopicsFirstThingsThen[thingyOf[w]], message \in ButtonPayloads :
            Message(topic, message)
            => /\ promise'[w] = Fulfilled(ParseTable[message].ts)
               /\ w \in settledNow']_vars
  /\ [][\A w \in Waits :
          promise[w].state = "fulfilled" => promise'[w] = promise[w]]_vars

\* C2 witness: a wait was resolved with ts 2 by the last delivery while the
\* other wait, on the same device, holds ts 1 from an earlier matching message.
C2_Witness ==
  \E v \in Waits, w \in Waits :
    /\ thingyOf[v] = thingyOf[w]
    /\ promise[v] = Fulfilled(Num(1))
    /\ promise[w] = Fulfilled(Num(2))
    /\ settledNow = {w}

\* C3 (as claimed): a settled wait (by match, decode error or timeout) has no
\* messageHandler left registered on the mqtt client.
C3_SettledHasNoListener ==
  \A w \in Waits : promise[w].state # "pending" => ~HasHandler(w)

C5_DecodeErrorOnlyOnOwnTopic ==
  [][\A w \in Waits : promise[w] = Pending =>
       \A topic \in Topics, message \in Payloads :
         Message(topic, message)
         => ( promise'[w] = Rejected("SyntaxError")
              <=> ( /\ ~Decodes(message)
                    /\ topic \in TopicsWithThingsThen[thingyOf[w]] ) )]_vars

\* C6 (as claimed): a message whose topic has no `things` segment immediately
\* followed by the awaited device leaves a pending wait as it was: promise,
\* handler and timer.
C6_ForeignTopicIgnored ==
  [][\A w \in Waits : promise[w] = Pending =>
       \A topic \in Topics \ TopicsWithThingsThen[thingyOf[w]],
          message \in Payloads :
         Message(topic, message)
         => /\ promise'[w] = promise[w]
            /\ HasHandler(w) => HasListener(listeners', "messageHandler", w)
            /\ timeoutId'[w] = timeoutId[w]]_vars

\* C7: starting a wait leaves the promise, the listeners and the timer of every
\* earlier wait as they were, and one matching BUTTON message settles every
\* pending wait on that device, all with that message's ts.
C7_ConcurrentWaits ==
  /\ [][\A thingy \in Devices : WaitClickButton(thingy) =>
          \A w \in Waits :
            /\ promise'[w] = promise[w]
            /\ timeoutId'[w] = timeoutId[w]
            /\ \A fn \in {"messageHandler", "once"} :
                 HasListener(listeners, fn, w) => HasListener(listeners', fn, w)]_vars
  /\ [][\A v \in Waits, w \in Waits :
          ( /\ v # w /\ thingyOf[v] = thingyOf[w]
            /\ promise[v] = Pending /\ promise[w] = Pending )
          => \A topic \in TopicsFirstThingsThen[thingyOf[w]],
                message \in ButtonPayloads :
               Message(topic, message)
               => /\ {v, w} \subseteq settledNow'
                  /\ promise'[v] = Fulfilled(ParseTable[message].ts)
                  /\ promise'[w] = promise'[v]]_vars

\* C7 witness: two waits on the same device resolved by the same delivery.
C7_Witness ==
  \E v \in Waits, w \in Waits :
    /\ v # w /\ thingyOf[v] = thingyOf[w]
    /\ {v, w} \subseteq settledNow
    /\ promise[v].state = "fulfilled" /\ promise[w] = promise[v]

\* C8: match first: the wait is resolved and its timer is cleared in the same
\* step, so no timer callback can run on a resolved wait and the value stays.
\* Timer first: the callback rejects a pending wait with the 408 error and
\* removes its handler, and the rejection stays whatever arrives later.
C8_MatchDeadlineRace ==
  /\ [](\A w \in Waits : promise[w].state = "fulfilled" => timeoutId[w] # "armed")
  /\ [][\A w \in Waits : (promise[w] = Pending /\ timeoutId[w] = "armed") =>
          \A topic \in TopicsFirstThingsThen[thingyOf[w]], message \in ButtonPayloads :
            Message(topic, message)
            => /\ promise'[w].state = "fulfilled"
               /\ timeoutId'[w] = "cleared"]_vars
  /\ [][\A w \in Waits : (promise[w] = Pending /\ TimeoutCallback(w))
          => /\ promise'[w] = Rejected("AppError408")
             /\ ~HasListener(listeners', "messageHandler", w)]_vars
  /\ [][\A w \in Waits :
          (promise[w].state = "fulfilled" \/ promise[w] = Rejected("AppError408"))
          => promise'[w] = promise[w]]_vars

\* C8 witness: wait v timed out and stays so although a BUTTON message for its
\* device came later (it resolved w, started on the same device); w was resolved
\* before its deadline and the deadline then passed without touching it.
C8_Witness ==
  \E v \in Waits, w \in Waits :
    /\ v # w /\ thingyOf[v] = thingyOf[w]
    /\ promise[v] = Rejected("AppError408")
    /\ promise[w].state = "fulfilled"
    /\ deadlinePassed[w]

IntegerCalls == {i \in DOMAIN calls : calls[i].fn = "addIntegerProperty"}

\* message.data == "1" in JavaScript, on the data values of the model
DataIsOne(message) == message.data \in {Str("1"), Num(1)}

\* C9: a call of addIntegerProperty whose data == "1" writes exactly one point
\* (tag device = deviceId, integer field named appId), a call whose data is
\* "0" writes none, and the integer points written are as many as the calls
\* whose data == "1".
C9_OnePointPerOne ==
  /\ \A i \in IntegerCalls :
       /\ calls[i].message.data = Str("0") => calls[i].point = 0
       /\ DataIsOne(calls[i].message) =>
            /\ calls[i].point \in DOMAIN points
            /\ points[calls[i].point].tags.device = calls[i].deviceId
            /\ points[calls[i].point].field.kind = "int"
            /\ points[calls[i].point].field.name = calls[i].message.appId
  /\ \A i \in IntegerCalls, j \in IntegerCalls :
       (i # j /\ calls[i].point # 0) => calls[i].point # calls[j].point
  /\ Cardinality({k \in DOMAIN points : points[k].field.kind = "int"})
       = Cardinality({i \in IntegerCalls : DataIsOne(calls[i].message)})

\* C9 witness: a call with data "0" followed by a call with data "1", and one
\* point written.
C9_Witness ==
  /\ Len(calls) = 2
  /\ calls[1].fn = "addIntegerProperty" /\ calls[1].message.data = Str("0")
  /\ calls[2].fn = "addIntegerProperty" /\ calls[2].message.data = Str("1")
  /\ Len(points) = 1

\* C10 (as claimed): a written point carries the message's ts when the message
\* has one, and the instant of the call otherwise.
C10_MessageTsTakesPrecedence ==
  \A i \in DOMAIN calls :
    calls[i].point # 0 =>
      points[calls[i].point].timestamp =
        IF calls[i].message.ts # Undefined THEN calls[i].message.ts.v
        ELSE calls[i].at


\* ------------------------------------------------------ query-builder claims
\* number of occurrences of a template piece in a rendered query
Count(rendered, piece) ==
  Cardinality({i \in DOMAIN rendered : rendered[i] = piece})

\* C11: the string constructBasicPropertyQuery returns holds exactly one range
\* clause, and holds exactly one device-tag filter clause (r.device == ...) if
\* and only if deviceId is set; with deviceId absent no device filter is rendered.
C11_DeviceFilterIffDeviceId ==
  query.fn = "constructBasicPropertyQuery" =>
    /\ Count(query.result, RangeOpen) = 1
    /\ (Count(query.result, DeviceEq) = 1) <=> (query.deviceId # Undefined)
    /\ query.deviceId = Undefined => Count(query.result, DeviceEq) = 0

\* C12: the string constructStatisticalQueryOnProperty returns is the string
\* constructBasicPropertyQuery returns for the same arguments, followed by
\* exactly one grouping stage (by _field) and exactly one reduction stage that
\* names the statistic; the basic query holds no grouping and no reduction stage.
C12_StatisticalExtendsBasic ==
  /\ query.fn = "constructStatisticalQueryOnProperty" =>
       /\ query.result =
            constructBasicPropertyQuery(query.bucket, query.interval,
                                        query.measurement, query.deviceId,
                                        query.field)
            \o << GroupStage, PipeOpen, TemplateString(query.statistic), CallClose >>
       /\ Count(query.result, GroupStage) = 1
       /\ Count(query.result, CallClose) = 1
  /\ query.fn = "constructBasicPropertyQuery" =>
       /\ Count(query.result, GroupStage) = 0
       /\ Count(query.result, CallClose) = 0

C12_Witness ==
  /\ query.fn = "constructStatisticalQueryOnProperty"
  /\ query.statistic = Str("stddev")
  /\ query.deviceId = Str("dev2")
  /\ Count(query.result, GroupStage) = 1


\* ------------------------------------------------------ result-stream claims
GetQueryRowsCalls == {i \in Streams : streams[i].fn = "getQueryRows"}
SendQueryResultsCalls == {i \in Streams : streams[i].fn = "sendQueryResults"}

\* the value is one entry per delivered row, in the order of delivery, each
\* entry holding the row's column values
IsRowsOf(value, delivered) ==
  /\ Len(value) = Len(delivered)
  /\ \A k \in 1..Len(delivered) :
       /\ DOMAIN value[k] = Labels
       /\ \A label \in Labels : value[k][label] = delivered[k][ColumnOf(label)]

\* the value is one entry per delivered row, in the order of delivery, each
\* entry holding device, measurement, property, value and time of the row
IsEntriesOf(value, delivered) ==
  /\ Len(value) = Len(delivered)
  /\ \A k \in 1..Len(delivered) :
       value[k] = [device |-> delivered[k][ColumnOf("device")],
                   measurement |-> delivered[k][ColumnOf("_measurement")],
                   property |-> delivered[k][ColumnOf("_field")],
                   value |-> delivered[k][ColumnOf("_value")],
                   time |-> delivered[k][ColumnOf("_time")]]

\* C13: if the store signals an error at any point of a getQueryRows stream,
\* before or after any number of rows, the promise is rejected as a whole and
\* none of the rows collected so far is returned to the caller.
C13_ErrorRejectsWhole ==
  \A i \in GetQueryRowsCalls :
    streams[i].signal = "error" =>
      /\ streams[i].promise.state = "rejected"
      /\ \E error \in StoreErrors :
           streams[i].promise.reason = FetchErrorMessage(error)

C13_Witness ==
  \E i \in GetQueryRowsCalls :
    /\ streams[i].signal = "error"
    /\ Len(streams[i].delivered) = 2
    /\ streams[i].promise.state = "rejected"

\* C14: when the store signals completion, getQueryRows resolves with exactly
\* the rows the store delivered, one entry per row, in the order of delivery;
\* the promise stays pending until completion or an error is signalled.
C14_ResolvesWithDeliveredRows ==
  \A i \in GetQueryRowsCalls :
    /\ streams[i].signal = "complete" =>
         /\ streams[i].promise.state = "fulfilled"
         /\ IsRowsOf(streams[i].promise.value, streams[i].delivered)
    /\ streams[i].signal = "none" => streams[i].promise = Pending

C14_Witness ==
  \E i \in GetQueryRowsCalls :
    /\ streams[i].signal = "complete"
    /\ Len(streams[i].delivered) = 2
    /\ streams[i].delivered[1] # streams[i].delivered[2]
    /\ streams[i].promise.state = "fulfilled"

\* C19: each sendQueryResults call sends exactly one HTTP response: status
\* 200 with all delivered rows in the order of delivery on completion, or
\* status 500 with no rows on an error; no response is sent while rows are
\* being delivered, and never a second one.
C19_OneResponsePerCall ==
  \A i \in SendQueryResultsCalls :
    /\ streams[i].signal = "none" => streams[i].responses = <<>>
    /\ streams[i].signal = "complete" =>
         /\ Len(streams[i].responses) = 1
         /\ streams[i].responses[1].status = 200
         /\ streams[i].responses[1].body.status = "success"
         /\ IsEntriesOf(streams[i].responses[1].body.data, streams[i].delivered)
    /\ streams[i].signal = "error" =>
         /\ Len(streams[i].responses) = 1
         /\ streams[i].responses[1].status = 500
         /\ DOMAIN streams[i].responses[1].body = {"status", "message"}
         /\ streams[i].responses[1].body.status = "error"

C19_Witness ==
  /\ \E i \in SendQueryResultsCalls :
       /\ streams[i].signal = "complete"
       /\ Len(streams[i].delivered) = 2
       /\ streams[i].delivered[1] # streams[i].delivered[2]
       /\ Len(streams[i].responses) = 1
  /\ \E i \in SendQueryResultsCalls :
       /\ streams[i].signal = "error"
       /\ Len(streams[i].delivered) > 0
       /\ Len(streams[i].responses) = 1


\* ------------------------------------------------------------ publish claims
\* C15: every publishToMQTT call gives the caller exactly one outcome: once
\* the publish callback has run, one response has been sent, a success
\* response (status 200 with the message) when the broker accepted the publish
\* and an error response when the callback reported an error; no call is left
\* without a response.
C15_OneOutcomePerPublish ==
  \A i \in Published :
    publishes[i].called =>
      /\ Len(publishes[i].responses) = 1
      /\ ~Truthy(publishes[i].error) =>
           /\ publishes[i].responses[1].status = 200
           /\ publishes[i].responses[1].body.data.message = publishes[i].message
      /\ Truthy(publishes[i].error) =>
           publishes[i].responses[1].status # 200


\* ------------------------------------------------------------- rating claims
\* optimalRange lies within fullRange
Contained(optimalRange, fullRange) ==
  fullRange[1] <= optimalRange[1] /\ optimalRange[2] <= fullRange[2]

Side(value, optimalRange) ==
  IF value > optimalRange[2] THEN "above"
  ELSE IF value < optimalRange[1] THEN "below"
  ELSE "inside"

IsFrac(x) == DOMAIN x = {"n", "d"}

\* a < b for two ratings; logistic(x) = 10 / (1 + exp(x)) lies strictly
\* between 0 and 5 for the arguments 0 < x < ExpOverflowArg it is kept for,
\* and is smaller for a larger argument
RatingLess(a, b) ==
  IF IsFrac(a) /\ IsFrac(b) THEN FracLess(a, b)
  ELSE IF IsFrac(a) THEN ~FracLess(Int2Frac(0), a)
  ELSE IF IsFrac(b) THEN ~FracLess(b, Int2Frac(5))
  ELSE FracLess(b.logistic, a.logistic)

IsLinear(call) == call.fn = "getLinearRating"
IsSCurve(call) == call.fn = "getSCurveRating"

\* two calls with the same configuration, the second one with a value on the
\* same side of optimalRange and at least as far from it
MovesAway(first, second) ==
  /\ first.fn = second.fn
  /\ first.config = second.config
  /\ Side(first.value, first.config.optimalRange) # "inside"
  /\ Side(first.value, first.config.optimalRange)
       = Side(second.value, second.config.optimalRange)
  /\ Distance(second.value, second.config.optimalRange)
       >= Distance(first.value, first.config.optimalRange)

\* C16: for every valid configuration (optimalRange within fullRange)
\* getLinearRating returns 5 for a value inside optimalRange, decreases
\* linearly with the distance from optimalRange, is exactly 0 at each of the
\* two edges of fullRange, is never below 0, and never increases as the value
\* moves away from optimalRange.
C16_LinearDecayToEdges ==
  [][ (IsLinear(ratingCall')
       /\ Contained(ratingCall'.config.optimalRange, ratingCall'.config.fullRange))
      =>
      LET call == ratingCall'
          optimalRange == call.config.optimalRange
          fullRange == call.config.fullRange
      IN /\ call.result.t = "number"
         /\ InOptimalRange(call.value, optimalRange)
              => call.result = Num(Int2Frac(5))
         /\ ~FracLess(call.result.v, Int2Frac(0))
         /\ (call.value \in {fullRange[1], fullRange[2]}
             /\ ~InOptimalRange(call.value, optimalRange))
              => call.result = Num(Int2Frac(0))
         /\ (IsLinear(ratingCall) /\ MovesAway(ratingCall, call))
              => /\ ~FracLess(ratingCall.result.v, call.result.v)
                 \* the loss 5 - rating is proportional to the distance
                 /\ FracLess(Int2Frac(0), call.result.v)
                      => FracTimes(FracMinus(Int2Frac(5), ratingCall.result.v),
                                   Int2Frac(Distance(call.value, optimalRange)))
                         = FracTimes(FracMinus(Int2Frac(5), call.result.v),
                                     Int2Frac(Distance(ratingCall.value, optimalRange)))
    ]_vars

\* C17: getLinearRating gives the range-configuration error result, a value
\* the caller can tell apart from a rating (null, nothing is thrown), exactly
\* when optimalRange is not within fullRange, and a number in every other case.
C17_ErrorIffNotContained ==
  IsLinear(ratingCall) =>
    /\ (ratingCall.result = Null)
         <=> ~Contained(ratingCall.config.optimalRange, ratingCall.config.fullRange)
    /\ ratingCall.result # Null => ratingCall.result.t = "number"

C17_Witness ==
  /\ IsLinear(ratingCall)
  /\ ratingCall.config.optimalRange = <<20, 25>>
  /\ ratingCall.config.fullRange = <<0, 24>>
  /\ ratingCall.value = 22
  /\ ratingCall.result = Null


\* the slope getSCurveRating applies on the side of the value is positive
PositiveSlope(call) ==
  LET side == Side(call.value, call.config.optimalRange)
  IN \/ side = "above" /\ FracLess(Int2Frac(0), call.config.slopeAboveOptimal)
     \/ side = "below" /\ FracLess(Int2Frac(0), call.config.slopeBelowOptimal)

\* slope * distance of the call, the argument of Math.exp
ExpArgument(call) ==
  LET side == Side(call.value, call.config.optimalRange)
      slope == IF side = "above" THEN call.config.slopeAboveOptimal
               ELSE IF side = "below" THEN call.config.slopeBelowOptimal
               ELSE Int2Frac(0)
  IN FracTimes(slope, Int2Frac(Distance(call.value, call.config.optimalRange)))

\* getSCurveRating is 5 inside optimalRange and within 0..5 everywhere
SCurveInRange(call) ==
  /\ call.result.t = "number"
  /\ InOptimalRange(call.value, call.config.optimalRange)
       => call.result = Num(Int2Frac(5))
  /\ ~RatingLess(call.result.v, Int2Frac(0))
  /\ ~RatingLess(Int2Frac(5), call.result.v)

\* the second call is strictly farther from optimalRange than the first, on
\* the same side, with the same configuration, and the slope there is positive
MovesFartherOnSlope(first, second) ==
  /\ IsSCurve(first)
  /\ MovesAway(first, second)
  /\ Distance(second.value, second.config.optimalRange)
       > Distance(first.value, first.config.optimalRange)
  /\ PositiveSlope(second)

ValidCoordinates(coordinates) ==
  /\ coordinates.t = "array"
  /\ Len(coordinates.v) = 2
  /\ \A k \in 1..2 : coordinates.v[k].t = "number" /\ ~IsNaN(coordinates.v[k])
  /\ Abs(coordinates.v[1].v) <= 90
  /\ Abs(coordinates.v[2].v) <= 180

\* C20: checkLocation(coordinates) returns true if and only if coordinates has
\* exactly two entries, both are numbers, the first of absolute value at most
\* 90 and the second of absolute value at most 180; it returns false for every
\* other input, numbers out of those bounds and non-numeric entries included.
C20_TrueIffValidCoordinates ==
  location.fn = "checkLocation" =>
    (location.result <=> ValidCoordinates(location.coordinates))


\* ----------------------------------------------------------- connectUser claims
\* the token is present, signed with the secret and not expired at the time
TokenValid(token, at) ==
  /\ token # EmptyToken
  /\ token.signed
  /\ at < token.exp

\* the password of the document was changed after the time
ChangedAfter(document, iat) ==
  /\ document.passwordChangedAt # Undefined
  /\ document.passwordChangedAt.v > iat

\* findById gave the call a document
FoundDocument(login) == "id" \in DOMAIN login.found

Returned(login) == login.promise.state = "fulfilled"
Failed(login) == login.promise.state = "rejected"

\* C21: connectUser returns a user document only when the token verified, the
\* user with the decoded id exists and that user has not changed password
\* after the token was issued; the checks run in that order, and when one of
\* them fails no user is returned and the call fails, with status code 401 for
\* a missing user or a changed password.
C21_UserOnlyAfterThreeChecks ==
  \A i \in Logins :
    LET login == logins[i]
        token == login.token
    IN /\ Returned(login) =>
            /\ TokenValid(token, login.at)
            /\ FoundDocument(login)
            /\ login.found.id = token.id
            /\ ~ChangedAfter(login.found, token.iat)
            /\ login.promise.value = login.found
       \* the token is checked first: without a valid one the collection is
       \* not read and the call fails with the error of the verification
       /\ ~TokenValid(token, login.at) =>
            /\ Failed(login)
            /\ login.lookups = 0
            /\ login.promise.reason.name \in {"JsonWebTokenError", "TokenExpiredError"}
       \* then the user: a missing one fails the call whatever its password
       /\ (TokenValid(token, login.at) /\ login.lookups = 1 /\ login.found = Null) =>
            /\ Failed(login)
            /\ login.promise.reason.statusCode = 401
       /\ (TokenValid(token, login.at) /\ FoundDocument(login)
           /\ ChangedAfter(login.found, token.iat)) =>
            /\ Failed(login)
            /\ login.promise.reason.statusCode = 401
       /\ login.pc = "done" => (Returned(login) \/ Failed(login))

C21_Witness ==
  \E i \in Logins :
    /\ Returned(logins[i])
    /\ logins[i].promise.value.passwordChangedAt # Undefined
    /\ logins[i].token.iat = 1


\* --------------------------------------------------------- sendErrorProd claims
Operational(err) == err.isOperational = Bool(TRUE)

\* C22: sendErrorProd sends exactly one response per call: for an operational
\* error it carries the error's own statusCode, status, message and fields;
\* for every other error it is status 500 with the fixed generic message, so
\* that two such errors with different contents get identical responses and
\* no detail of the error reaches the client.
C22_OneResponseNoDetail ==
  /\ \A i \in Sends :
       LET err == sent[i].err
           response == sent[i].responses[1]
       IN /\ Len(sent[i].responses) = 1
          /\ Operational(err) =>
               /\ response.status = err.statusCode.v
               /\ response.body["status"] = err.status
               /\ response.body["message"] = err.message
               /\ IF err.fields = Undefined
                  THEN DOMAIN response.body = {"status", "message"}
                  ELSE /\ DOMAIN response.body = {"status", "message", "fields"}
                       /\ response.body["fields"] = err.fields
          /\ ~Operational(err) =>
               /\ response.status = 500
               /\ DOMAIN response.body = {"status", "message"}
               /\ response.body["status"] = Str("error")
               /\ response.body["message"] = Str(GenericMessage)
  /\ \A i \in Sends, j \in Sends :
       (~Operational(sent[i].err) /\ ~Operational(sent[j].err))
         => sent[i].responses = sent[j].responses

C22_Witness ==
  \E i \in Sends, j \in Sends :
    /\ ~Operational(sent[i].err)
    /\ ~Operational(sent[j].err)
    /\ sent[i].err.message # sent[j].err.message
    /\ sent[i].responses = sent[j].responses
    /\ Len(sent[i].responses) = 1


\* ----------------------------------------------------------- shutDownAll claims
\* the process has only ever exited with code 1, and a call given both a db
\* connection and a server has started server.close only after
\* dbConnection.close() finished
ShutdownOrder ==
  /\ exitCode \in {Undefined, Num(1)}
  /\ \A i \in Shutdowns :
       (shutdowns[i].dbConnection /\ shutdowns[i].server
        /\ shutdowns[i].serverClose # "none")
         => shutdowns[i].dbClose = "fulfilled"

====
